---- MODULE Spec2Model ----
(***************************************************************************)
(* HierarchyViz: flat employee records -> manager/children index           *)
(* (src/utils/dataProcessing.ts) and the view controller that holds the    *)
(* index, the selected root and the search state (src/App.tsx), fed by the *)
(* file uploader (src/components/FileUploader.tsx).                        *)
(*                                                                         *)
(* A JavaScript string is a tuple of one-character strings: <<"A","l">>.   *)
(* For an object reference, null and undefined are the records NULL and    *)
(* UNDEFINED; for a string | null field, null is NULLSTR.                  *)
(***************************************************************************)
EXTENDS Integers, Sequences, FiniteSets, TLC

\* ------------------------------------------------------------------------
\* Bounds of the model
\* ------------------------------------------------------------------------
\* longest record sequence handed to buildEmployeeMap by the library harness
MaxRows == 3
\* longest record sequence delivered by one upload to the controller
MaxUploadRows == 2
\* files being read at once (FileReaders that have not fired onload)
MaxPending == 2
\* Maps allocated in one behaviour; an upload is accepted only while a Map
\* is left for it
MaxBuilds == 2

\* most children of the root in a layout handed to the chart
MaxBreadth == 2
\* deepest level of a layout handed to the chart (the root is level 0)
MaxDepth == 2
\* zoom button clicks on one mounted chart
MaxZoomSteps == 1

\* ------------------------------------------------------------------------
\* JavaScript values
\* ------------------------------------------------------------------------
NULL == [null |-> TRUE]
UNDEFINED == [undefined |-> TRUE]
\* null where a string is expected: no string, its one element is not a
\* character
NULLSTR == <<"null">>

\* a missing field and an empty field are both falsy; both are the empty string
EMPTY == << >>

\* a || b on strings
Or(a, b) == IF a # EMPTY THEN a ELSE b

UPPER == <<"A","B","C","D","E","F","G","H","I","J","K","L","M",
           "N","O","P","Q","R","S","T","U","V","W","X","Y","Z">>
LOWER == <<"a","b","c","d","e","f","g","h","i","j","k","l","m",
           "n","o","p","q","r","s","t","u","v","w","x","y","z">>

lowerChar(c) ==
  IF \E i \in 1..Len(UPPER) : UPPER[i] = c
  THEN LOWER[CHOOSE i \in 1..Len(UPPER) : UPPER[i] = c]
  ELSE c

\* String.prototype.toLowerCase
toLowerCase(s) == [i \in 1..Len(s) |-> lowerChar(s[i])]

isSpace(c) == c = " "

\* String.prototype.trim
trim(s) ==
  IF \A i \in 1..Len(s) : isSpace(s[i])
  THEN EMPTY
  ELSE LET first == CHOOSE i \in 1..Len(s) :
                      ~isSpace(s[i]) /\ \A j \in 1..(i-1) : isSpace(s[j])
           last  == CHOOSE i \in 1..Len(s) :
                      ~isSpace(s[i]) /\ \A j \in (i+1)..Len(s) : isSpace(s[j])
       IN  SubSeq(s, first, last)

\* String.prototype.includes
includes(s, sub) ==
  \E i \in 0..(Len(s) - Len(sub)) : SubSeq(s, i + 1, i + Len(sub)) = sub

\* ------------------------------------------------------------------------
\* Records (RawCsvRow) after parseCsv has upper-cased and trimmed the keys
\* ------------------------------------------------------------------------
Row(en, ei, sp, mi, si, fn, nm, fl) ==
  [EMPLOYEENUMBER |-> en, EMPLOYEE_ID |-> ei,
   SUPERVISORPARTYID |-> sp, MANAGER_ID |-> mi, SUPERVISOR_ID |-> si,
   FIRSTNAME |-> fn, NAME |-> nm, FULL_NAME |-> fl]

Unknown == <<"U","n","k","n","o","w","n">>

rowId(row) == Or(row.EMPLOYEENUMBER, row.EMPLOYEE_ID)
rowManagerId(row) ==
  Or(Or(row.SUPERVISORPARTYID, row.MANAGER_ID), row.SUPERVISOR_ID)
rowName(row) == Or(Or(row.FIRSTNAME, row.NAME), row.FULL_NAME)

\* the Employee object literal of the node pass
newEmployee(row) ==
  [id        |-> rowId(row),
   managerId |-> IF rowManagerId(row) # EMPTY THEN rowManagerId(row) ELSE NULLSTR,
   name      |-> Or(rowName(row), Unknown),
   children  |-> << >>]

\* ------------------------------------------------------------------------
\* Map<string, Employee>: keys in insertion order plus the value of each key.
\* children holds the ids of the child nodes; every child is a value of the
\* same Map.
\* ------------------------------------------------------------------------
emptyMap == [order |-> << >>, node |-> << >>]

has(m, k) == k \in DOMAIN m.node

\* variant: setting a present key moves it to the end of the order
mapSet_moveToEnd(m, k, v) ==
  [order |-> Append(SelectSeq(m.order, LAMBDA x : x # k), k),
   node  |-> [x \in (DOMAIN m.node) \cup {k} |->
                IF x = k THEN v ELSE m.node[x]]]

\* variant: setting a present key keeps the value it has
mapSet_keepFirst(m, k, v) ==
  [order |-> IF k \in DOMAIN m.node THEN m.order ELSE Append(m.order, k),
   node  |-> [x \in (DOMAIN m.node) \cup {k} |->
                IF x \in DOMAIN m.node THEN m.node[x] ELSE v]]

\* Map.prototype.set: a key that is already present keeps its position
mapSet(m, k, v) ==
  [order |-> IF has(m, k) THEN m.order ELSE Append(m.order, k),
   node  |-> [x \in (DOMAIN m.node) \cup {k} |->
                IF x = k THEN v ELSE m.node[x]]]

RECURSIVE nodePass(_, _, _)
nodePass(rows, i, m) ==
  IF i > Len(rows) THEN m
  ELSE nodePass(rows, i + 1,
         IF rowId(rows[i]) # EMPTY
         THEN mapSet(m, rowId(rows[i]), newEmployee(rows[i]))
         ELSE m)

linkOne(m, k) ==
  LET managerId == m.node[k].managerId IN
  IF managerId # NULLSTR /\ has(m, managerId)
  THEN [m EXCEPT !.node[managerId].children = Append(@, k)]
  ELSE m

RECURSIVE linkPass(_, _)
linkPass(m, i) ==
  IF i > Len(m.order) THEN m
  ELSE linkPass(linkOne(m, m.order[i]), i + 1)

\* variant: the link pass leaves out the first entry of the Map
buildEmployeeMap_skipFirst(rows) == linkPass(nodePass(rows, 1, emptyMap), 2)

buildEmployeeMap(rows) == linkPass(nodePass(rows, 1, emptyMap), 1)

\* ------------------------------------------------------------------------
\* searchEmployees: the matching nodes, as the keys of the Map, in the
\* order Map.forEach visits them
\* ------------------------------------------------------------------------
\* variant: the field value is compared without lower-casing it
matches_caseSensitive(employee, queryLower, field) ==
  CASE field = "id"        -> includes(employee.id, queryLower)
    [] field = "name"      -> includes(employee.name, queryLower)
    [] field = "managerId" -> /\ employee.managerId # NULLSTR
                              /\ includes(employee.managerId, queryLower)

matches(employee, queryLower, field) ==
  CASE field = "id"        -> includes(toLowerCase(employee.id), queryLower)
    [] field = "name"      -> includes(toLowerCase(employee.name), queryLower)
    [] field = "managerId" -> /\ employee.managerId # NULLSTR
                              /\ includes(toLowerCase(employee.managerId),
                                          queryLower)

\* an Employee object: the Map that holds it and its key there.  Two
\* references are the same object iff they are equal.
employeeAt(map, k) == [home |-> map, id |-> k]
fieldsOf(e) == e.home.node[e.id]

\* variant: the query is lower-cased but not trimmed
searchEmployees_noTrim(map, query, field) ==
  LET queryLower == toLowerCase(query)
      hits == SelectSeq(map.order,
                LAMBDA k : matches(map.node[k], queryLower, field))
  IN  IF queryLower = EMPTY THEN << >>
      ELSE [i \in 1..Len(hits) |-> employeeAt(map, hits[i])]

searchEmployees(map, query, field) ==
  LET queryLower == trim(toLowerCase(query))
      hits == SelectSeq(map.order,
                LAMBDA k : matches(map.node[k], queryLower, field))
  IN  IF queryLower = EMPTY THEN << >>
      ELSE [i \in 1..Len(hits) |-> employeeAt(map, hits[i])]

\* ------------------------------------------------------------------------
\* OrgChart layout: d3.hierarchy walks children from the root.  It returns
\* the root and its descendants, and never returns when a node is its own
\* descendant.
\* ------------------------------------------------------------------------
childSet(home, k) ==
  {home.node[k].children[i] : i \in 1..Len(home.node[k].children)}

RECURSIVE closure(_, _)
closure(home, S) ==
  LET T == S \cup UNION {childSet(home, k) : k \in S}
  IN  IF T = S THEN S ELSE closure(home, T)

descendants(e) == closure(e.home, {e.id})

layoutDiverges(e) ==
  \E k \in descendants(e) : k \in closure(e.home, childSet(e.home, k))

\* ------------------------------------------------------------------------
\* Inputs
\* ------------------------------------------------------------------------
BoundedSeq(S, n) == UNION {[1..k -> S] : k \in 0..n}

\* records an upload can deliver
UploadRows ==
  { Row(<<"a">>, EMPTY, EMPTY, EMPTY, EMPTY, <<"A","l">>, EMPTY, EMPTY),
    Row(<<"b">>, EMPTY, <<"a">>, EMPTY, EMPTY, <<"a","l">>, EMPTY, EMPTY),
    Row(EMPTY, <<"a">>, EMPTY, <<"c">>, EMPTY, EMPTY, <<"B","o">>, EMPTY),
    Row(<<"b">>, EMPTY, EMPTY, EMPTY, <<"b">>, EMPTY, EMPTY, EMPTY),
    Row(EMPTY, EMPTY, <<"a">>, EMPTY, EMPTY, <<"A","l">>, EMPTY, EMPTY) }

UploadInputs == BoundedSeq(UploadRows, MaxUploadRows)

\* the ids a node of an uploaded index can have
UploadIds == {rowId(r) : r \in UploadRows} \ {EMPTY}

\* records handed to buildEmployeeMap directly
LibRows ==
  { Row(<<"a">>, EMPTY, EMPTY, EMPTY, EMPTY, <<"A","l">>, EMPTY, EMPTY),
    Row(<<"b">>, EMPTY, <<"a">>, EMPTY, EMPTY, <<"a","l">>, EMPTY, EMPTY),
    Row(EMPTY, <<"c">>, EMPTY, <<"a">>, EMPTY, EMPTY, <<" ","B">>, EMPTY),
    Row(<<"b">>, EMPTY, EMPTY, EMPTY, <<"Z">>, EMPTY, EMPTY, <<" ">>),
    Row(EMPTY, EMPTY, <<"a">>, EMPTY, EMPTY, <<"A","l">>, EMPTY, EMPTY),
    Row(<<"a">>, <<"c">>, <<"a">>, <<"b">>, EMPTY, EMPTY, EMPTY, EMPTY),
    Row(<<"A">>, EMPTY, <<"a">>, EMPTY, EMPTY, <<"A","L">>, EMPTY, EMPTY) }

LibInputs == BoundedSeq(LibRows, MaxRows)

\* queries handed to searchEmployees directly, besides the field values of
\* the nodes of the index
LibQueries == { EMPTY, <<" ">>, <<" ","A"," ">>, <<"l">>, <<"z">> }

SearchFields == {"id", "name", "managerId"}

\* texts typed into the search box
TypedQueries == { <<"a">>, <<"B">> }

\* the search-type buttons of the header
SearchTypeButtons == {"name", "id"}

\* ------------------------------------------------------------------------
\* Numbers
\* ------------------------------------------------------------------------
\* A JavaScript number is the fraction <<n, d>> in lowest terms with d > 0;
\* the arithmetic is exact. Infinity, -Infinity and NaN are the one value
\* NOTFINITE, which every operation hands on.
RECURSIVE gcd(_, _)
gcd(a, b) == IF b = 0 THEN a ELSE gcd(b, a % b)
abs(n) == IF n < 0 THEN -n ELSE n
NOTFINITE == <<1, 0>>
finite(q) == q[2] # 0
Q(n, d) ==
  IF d = 0 THEN NOTFINITE
  ELSE LET g == gcd(abs(n), abs(d))
           sgn == IF d < 0 THEN -1 ELSE 1
       IN  <<sgn * (n \div g), sgn * (d \div g)>>
num(n) == <<n, 1>>
add(a, b) ==
  IF finite(a) /\ finite(b)
  THEN Q(a[1] * b[2] + b[1] * a[2], a[2] * b[2]) ELSE NOTFINITE
sub(a, b) ==
  IF finite(a) /\ finite(b)
  THEN Q(a[1] * b[2] - b[1] * a[2], a[2] * b[2]) ELSE NOTFINITE
mul(a, b) ==
  IF finite(a) /\ finite(b) THEN Q(a[1] * b[1], a[2] * b[2]) ELSE NOTFINITE
\* a / b: a division by zero gives Infinity or NaN
div(a, b) ==
  IF finite(a) /\ finite(b) THEN Q(a[1] * b[2], a[2] * b[1]) ELSE NOTFINITE
\* a <= b; false when one side is not finite
leq(a, b) == finite(a) /\ finite(b) /\ a[1] * b[2] <= b[1] * a[2]
min(a, b) ==
  IF finite(a) /\ finite(b) THEN (IF leq(a, b) THEN a ELSE b) ELSE NOTFINITE
max(a, b) ==
  IF finite(a) /\ finite(b) THEN (IF leq(a, b) THEN b ELSE a) ELSE NOTFINITE

\* ------------------------------------------------------------------------
\* OrgChart: geometry
\* ------------------------------------------------------------------------
CARD_WIDTH == 260
CARD_HEIGHT == 100
VERTICAL_SPACING == 140
HORIZONTAL_SPACING == 80
\* const padding = 100 of fitToScreen
padding == 100
\* the + 50 of ty
topBias == 50
\* Math.min(Math.max(scale, 0.2), 1)
fitScaleMin == Q(1, 5)
fitScaleMax == num(1)
\* scaleExtent([0.1, 2])
scaleExtentMin == Q(1, 10)
scaleExtentMax == num(2)
\* the factors of the zoom buttons
ZoomFactors == { Q(6, 5), Q(4, 5) }

\* d3.zoomIdentity and a transform built from it
zoomIdentity == [k |-> num(1), x |-> num(0), y |-> num(0)]
Transform(k, x, y) == [k |-> k, x |-> x, y |-> y]

\* nodeSize of the tree layout: the distance of siblings and of levels
nodeSizeX == CARD_WIDTH + HORIZONTAL_SPACING
nodeSizeY == CARD_HEIGHT + VERTICAL_SPACING

\* x of child i of b children under a root at x = 0
childX(b, i) == nodeSizeX * (i - 1) - (nodeSizeX * (b - 1)) \div 2

\* the positions d3.tree gives a root with b children whose first child
\* heads a chain that ends at level d: the root at <<0, 0>>, siblings
\* nodeSizeX apart and centred under the root, a single child under its
\* parent
Layout(b, d) ==
  {<<0, 0>>}
    \cup {<<childX(b, i), nodeSizeY>> : i \in (IF d = 0 THEN {} ELSE 1..b)}
    \cup {<<childX(b, 1), nodeSizeY * j>> : j \in 2..d}

Layouts == {Layout(b, d) : b \in 1..MaxBreadth, d \in 0..MaxDepth}

\* sizes <<clientWidth, clientHeight>> of the svg element: none, smaller
\* than the padding, and two windows
Viewports == { <<0, 0>>, <<60, 60>>, <<800, 600>>, <<2000, 1500>> }

\* fitToScreen, lines 77-83: the extremes of the positions, from
\* Infinity / -Infinity
minOver(S) ==
  IF S = {} THEN NOTFINITE ELSE num(CHOOSE v \in S : \A u \in S : v <= u)
maxOver(S) ==
  IF S = {} THEN NOTFINITE ELSE num(CHOOSE v \in S : \A u \in S : u <= v)
\* lines 86-89: the extremes with the card dimensions added
minX(ns) == sub(minOver({n[1] : n \in ns}), div(num(CARD_WIDTH), num(2)))
maxX(ns) == add(maxOver({n[1] : n \in ns}), div(num(CARD_WIDTH), num(2)))
minY(ns) == minOver({n[2] : n \in ns})
maxY(ns) == add(maxOver({n[2] : n \in ns}), num(CARD_HEIGHT))
width(ns) == sub(maxX(ns), minX(ns))
height(ns) == sub(maxY(ns), minY(ns))
scale(ns, svgWidth, svgHeight) ==
  min(div(num(svgWidth - padding), width(ns)),
      div(num(svgHeight - padding), height(ns)))
\* variant: the scale has no lower limit
clampedScale_noFloor(ns, svgWidth, svgHeight) ==
  min(scale(ns, svgWidth, svgHeight), fitScaleMax)
clampedScale(ns, svgWidth, svgHeight) ==
  min(max(scale(ns, svgWidth, svgHeight), fitScaleMin), fitScaleMax)
centerX(ns) == div(add(minX(ns), maxX(ns)), num(2))
centerY(ns) == div(add(minY(ns), maxY(ns)), num(2))
tx(ns, svgWidth, svgHeight) ==
  sub(div(num(svgWidth), num(2)),
      mul(centerX(ns), clampedScale(ns, svgWidth, svgHeight)))
ty(ns, svgWidth, svgHeight) ==
  add(sub(sub(div(num(svgHeight), num(2)),
              mul(centerY(ns), clampedScale(ns, svgWidth, svgHeight))),
          div(mul(height(ns), clampedScale(ns, svgWidth, svgHeight)),
              num(2))),
      num(topBias))
\* d3.zoomIdentity.translate(tx, ty).scale(clampedScale)
fitTransform(ns, svgWidth, svgHeight) ==
  Transform(clampedScale(ns, svgWidth, svgHeight),
            tx(ns, svgWidth, svgHeight),
            ty(ns, svgWidth, svgHeight))

\* zoom.scaleBy(factor): the scale within the scale extent, the centre of
\* the svg element kept in place
scaleBy(t, factor, svgWidth, svgHeight) ==
  LET k1 == max(scaleExtentMin, min(scaleExtentMax, mul(t.k, factor)))
      p0x == div(num(svgWidth), num(2))
      p0y == div(num(svgHeight), num(2))
      p1x == div(sub(p0x, t.x), t.k)
      p1y == div(sub(p0y, t.y), t.k)
  IN  Transform(k1, sub(p0x, mul(p1x, k1)), sub(p0y, mul(p1y, k1)))

\* ------------------------------------------------------------------------
\* State
\* ------------------------------------------------------------------------
VARIABLES
  employeeMap,    \* App state: NULL or the Map, tagged with its allocation
  viewRoot,       \* App state: NULL, UNDEFINED or an Employee
  searchQuery,    \* App state
  searchType,     \* App state
  searchResults,  \* App state: sequence of Employee
  isLoading,      \* App state
  uploadError,    \* App state: UNDEFINED or the message
  reading,        \* FileReaders that have not fired onload yet
  parsing,        \* handleUpload suspended at await parseCsv: << >> or
                  \* <<rawData>>
  nextBuild,      \* allocation counter of Maps
  lastOp,         \* the handler that ran last
  libRows,        \* harness: argument of buildEmployeeMap
  libMap,         \* harness: its result, NULL before the call
  libQuery,       \* harness: arguments of searchEmployees
  libField,
  libResults,     \* harness: its result
  mounted,        \* OrgChart is mounted (svgRef.current, gRef.current set)
  zoomObj,        \* svgRef.current.__zoomObj holds a zoom behaviour
  nodes,          \* hierarchy.descendants(): the positions <<x, y>> the
                  \* tree layout gave the cards
  clientWidth,    \* svgRef.current.clientWidth
  clientHeight,   \* svgRef.current.clientHeight
  zoomTransform,  \* the transform of the view, [k, x, y]
  zoomSteps       \* zoom button clicks since the chart was mounted

appVars == <<employeeMap, viewRoot, searchQuery, searchType, searchResults,
             isLoading, uploadError, reading, parsing, nextBuild, lastOp>>
libVars == <<libRows, libMap, libQuery, libField, libResults>>
fitVars == <<mounted, zoomObj, nodes, clientWidth, clientHeight,
             zoomTransform, zoomSteps>>
vars == <<employeeMap, viewRoot, searchQuery, searchType, searchResults,
          isLoading, uploadError, reading, parsing, nextBuild, lastOp,
          libRows, libMap, libQuery, libField, libResults,
          mounted, zoomObj, nodes, clientWidth, clientHeight,
          zoomTransform, zoomSteps>>

ErrorMessage == [message |-> "Failed to parse CSV. Please check the format."]

isEmployee(v) == v # NULL /\ v # UNDEFINED

\* the render of App never completes once the chart's layout diverges;
\* nothing else runs on the thread after that
frozen ==
  /\ employeeMap # NULL
  /\ isEmployee(viewRoot)
  /\ layoutDiverges(viewRoot)

\* parseCsv settles its promise before it returns (Papa.parse calls complete
\* synchronously for a string), so the rest of handleUpload is a microtask:
\* it runs before the event loop takes the next event
taskCanStart == ~frozen /\ parsing = << >>

\* header (search form, reset) is rendered
headerShown == taskCanStart /\ employeeMap # NULL
\* FileUploader is rendered
uploaderShown == taskCanStart /\ employeeMap = NULL
\* OrgChart is rendered
chartShown == taskCanStart /\ employeeMap # NULL /\ isEmployee(viewRoot)

AppInit ==
  /\ employeeMap = NULL
  /\ viewRoot = NULL
  /\ searchQuery = EMPTY
  /\ searchType = "name"
  /\ searchResults = << >>
  /\ isLoading = FALSE
  /\ uploadError = UNDEFINED
  /\ reading = 0
  /\ parsing = << >>
  /\ nextBuild = 0
  /\ lastOp = "init"

LibIdle ==
  /\ libRows = << >>
  /\ libMap = NULL
  /\ libQuery = EMPTY
  /\ libField = "name"
  /\ libResults = << >>

\* no chart is mounted
Unmounted ==
  /\ mounted = FALSE
  /\ zoomObj = FALSE
  /\ nodes = {}
  /\ zoomTransform = zoomIdentity
  /\ zoomSteps = 0

ChartIdle ==
  /\ Unmounted
  /\ clientWidth = 0
  /\ clientHeight = 0

Init == AppInit /\ LibIdle /\ ChartIdle

\* ------------------------------------------------------------------------
\* FileUploader
\* ------------------------------------------------------------------------
\* processFile: a .csv file is dropped or chosen; a FileReader starts
processFile ==
  /\ uploaderShown
  /\ reading < MaxPending
  /\ nextBuild + reading < MaxBuilds
  /\ reading' = reading + 1
  /\ lastOp' = "processFile"
  /\ UNCHANGED <<employeeMap, viewRoot, searchQuery, searchType,
                 searchResults, isLoading, uploadError, parsing, nextBuild>>
  /\ UNCHANGED libVars
  /\ UNCHANGED fitVars

\* ------------------------------------------------------------------------
\* App handlers
\* ------------------------------------------------------------------------
\* reader.onload -> handleUpload, up to the await: parseCsv will deliver
\* rawData
handleUpload(rawData) ==
  /\ taskCanStart
  /\ reading > 0
  /\ reading' = reading - 1
  /\ isLoading' = TRUE
  /\ uploadError' = UNDEFINED
  /\ parsing' = <<rawData>>
  /\ lastOp' = "handleUpload"
  /\ UNCHANGED <<employeeMap, viewRoot, searchQuery, searchType,
                 searchResults, nextBuild>>
  /\ UNCHANGED libVars
  /\ UNCHANGED fitVars

\* new Map(): the index with the tag of its allocation
allocated(m, n) == [ref |-> n, order |-> m.order, node |-> m.node]

\* variant: only a node without a managerId counts as a root candidate
defaultRoot_nullOnly(map) ==
  LET first == IF Len(map.order) > 0
               THEN employeeAt(map, map.order[1]) ELSE UNDEFINED
      isCandidate(k) == map.node[k].managerId = NULLSTR
  IN  IF \E i \in 1..Len(map.order) : isCandidate(map.order[i])
      THEN employeeAt(map, map.order[
             CHOOSE i \in 1..Len(map.order) :
               /\ isCandidate(map.order[i])
               /\ \A j \in 1..(i-1) : ~isCandidate(map.order[j])])
      ELSE first

\* the default root chosen after a build
defaultRoot(map) ==
  LET first == IF Len(map.order) > 0
               THEN employeeAt(map, map.order[1]) ELSE UNDEFINED
      isCandidate(k) == \/ map.node[k].managerId = NULLSTR
                        \/ ~has(map, map.node[k].managerId)
  IN  IF \E i \in 1..Len(map.order) : isCandidate(map.order[i])
      THEN employeeAt(map, map.order[
             CHOOSE i \in 1..Len(map.order) :
               /\ isCandidate(map.order[i])
               /\ \A j \in 1..(i-1) : ~isCandidate(map.order[j])])
      ELSE first

\* handleUpload after the await: try / catch / finally
handleUploadResume ==
  /\ ~frozen
  /\ parsing # << >>
  /\ parsing' = << >>
  /\ IF Len(parsing[1]) = 0
     THEN /\ uploadError' = ErrorMessage
          /\ UNCHANGED <<employeeMap, viewRoot, nextBuild>>
     ELSE LET map == allocated(buildEmployeeMap(parsing[1]), nextBuild) IN
          /\ employeeMap' = map
          /\ viewRoot' = defaultRoot(map)
          /\ nextBuild' = nextBuild + 1
          /\ UNCHANGED uploadError
  /\ isLoading' = FALSE
  /\ lastOp' = "handleUploadResume"
  /\ UNCHANGED <<searchQuery, searchType, searchResults, reading>>
  /\ UNCHANGED libVars
  /\ UNCHANGED fitVars

\* onChange of the search inputs
setSearchQuery(q) ==
  /\ headerShown
  /\ searchQuery' = q
  /\ lastOp' = "setSearchQuery"
  /\ UNCHANGED <<employeeMap, viewRoot, searchType, searchResults,
                 isLoading, uploadError, reading, parsing, nextBuild>>
  /\ UNCHANGED libVars
  /\ UNCHANGED fitVars

\* onClick of the name / id buttons
setSearchType(t) ==
  /\ headerShown
  /\ searchType' = t
  /\ lastOp' = "setSearchType"
  /\ UNCHANGED <<employeeMap, viewRoot, searchQuery, searchResults,
                 isLoading, uploadError, reading, parsing, nextBuild>>
  /\ UNCHANGED libVars
  /\ UNCHANGED fitVars

\* variant: the results of the search are stored after selectEmployee has
\* run, so a single result stays in the list
handleSearch_resultsLast ==
  /\ headerShown
  /\ IF employeeMap = NULL \/ searchQuery = EMPTY
     THEN UNCHANGED <<viewRoot, searchResults, searchQuery>>
     ELSE LET results == searchEmployees(employeeMap, searchQuery, searchType)
          IN  IF Len(results) = 1
              THEN /\ viewRoot' = results[1]
                   /\ searchResults' = results
                   /\ searchQuery' = EMPTY
              ELSE /\ searchResults' = results
                   /\ UNCHANGED <<viewRoot, searchQuery>>
  /\ lastOp' = "handleSearch"
  /\ UNCHANGED <<employeeMap, searchType, isLoading, uploadError,
                 reading, parsing, nextBuild>>
  /\ UNCHANGED libVars
  /\ UNCHANGED fitVars

\* onSubmit of the search form
handleSearch ==
  /\ headerShown
  /\ IF employeeMap = NULL \/ searchQuery = EMPTY
     THEN UNCHANGED <<viewRoot, searchResults, searchQuery>>
     ELSE LET results == searchEmployees(employeeMap, searchQuery, searchType)
          IN  IF Len(results) = 1
              THEN \* selectEmployee(results[0]); its updates come last
                   /\ viewRoot' = results[1]
                   /\ searchResults' = << >>
                   /\ searchQuery' = EMPTY
              ELSE /\ searchResults' = results
                   /\ UNCHANGED <<viewRoot, searchQuery>>
  /\ lastOp' = "handleSearch"
  /\ UNCHANGED <<employeeMap, searchType, isLoading, uploadError,
                 reading, parsing, nextBuild>>
  /\ UNCHANGED libVars
  /\ UNCHANGED fitVars

\* the body of selectEmployee
selectEmployee(emp) ==
  /\ viewRoot' = emp
  /\ searchResults' = << >>
  /\ searchQuery' = EMPTY
  /\ lastOp' = "selectEmployee"
  /\ UNCHANGED <<employeeMap, searchType, isLoading, uploadError,
                 reading, parsing, nextBuild>>
  /\ UNCHANGED libVars
  /\ UNCHANGED fitVars

\* click on an entry of the search dropdown
clickResult(i) ==
  /\ headerShown
  /\ i \in 1..Len(searchResults)
  /\ selectEmployee(searchResults[i])

\* click on a card of the chart (onNodeClick)
clickNode(k) ==
  /\ chartShown
  /\ k \in descendants(viewRoot)
  /\ selectEmployee(employeeAt(viewRoot.home, k))

\* variant: the manager is installed through selectEmployee
goUp_viaSelect ==
  /\ chartShown
  /\ IF fieldsOf(viewRoot).managerId # NULLSTR
        /\ has(employeeMap, fieldsOf(viewRoot).managerId)
     THEN /\ viewRoot' = employeeAt(employeeMap, fieldsOf(viewRoot).managerId)
          /\ searchResults' = << >>
          /\ searchQuery' = EMPTY
     ELSE UNCHANGED <<viewRoot, searchResults, searchQuery>>
  /\ lastOp' = "goUp"
  /\ UNCHANGED <<employeeMap, searchType, isLoading, uploadError, reading,
                 parsing, nextBuild>>
  /\ UNCHANGED libVars
  /\ UNCHANGED fitVars

\* goUp; App offers the button only where the handler does not return early
goUp ==
  /\ chartShown
  /\ IF ~isEmployee(viewRoot) \/ fieldsOf(viewRoot).managerId = NULLSTR
        \/ employeeMap = NULL
     THEN UNCHANGED viewRoot
     ELSE IF has(employeeMap, fieldsOf(viewRoot).managerId)
          THEN viewRoot' = employeeAt(employeeMap, fieldsOf(viewRoot).managerId)
          ELSE UNCHANGED viewRoot
  /\ lastOp' = "goUp"
  /\ UNCHANGED <<employeeMap, searchQuery, searchType, searchResults,
                 isLoading, uploadError, reading, parsing, nextBuild>>
  /\ UNCHANGED libVars
  /\ UNCHANGED fitVars

resetData ==
  /\ headerShown
  /\ employeeMap' = NULL
  /\ viewRoot' = NULL
  /\ searchQuery' = EMPTY
  /\ searchResults' = << >>
  /\ lastOp' = "resetData"
  /\ UNCHANGED <<searchType, isLoading, uploadError, reading, parsing,
                 nextBuild>>
  /\ UNCHANGED libVars
  /\ UNCHANGED fitVars

Next ==
  \/ processFile
  \/ \E rawData \in UploadInputs : handleUpload(rawData)
  \/ handleUploadResume
  \/ \E q \in TypedQueries : setSearchQuery(q)
  \/ \E t \in SearchTypeButtons : setSearchType(t)
  \/ handleSearch
  \/ \E i \in 1..MaxUploadRows : clickResult(i)
  \/ \E k \in UploadIds : clickNode(k)
  \/ goUp
  \/ resetData

Spec == Init /\ [][Next]_vars

\* ------------------------------------------------------------------------
\* Library harness: buildEmployeeMap and searchEmployees called directly
\* ------------------------------------------------------------------------
LibInit ==
  /\ AppInit
  /\ ChartIdle
  /\ libRows \in LibInputs
  /\ libMap = NULL
  /\ libQuery = EMPTY
  /\ libField = "name"
  /\ libResults = << >>

callBuild ==
  /\ libMap = NULL
  /\ libMap' = buildEmployeeMap(libRows)
  /\ lastOp' = "buildEmployeeMap"
  /\ UNCHANGED <<libRows, libQuery, libField, libResults>>
  /\ UNCHANGED <<employeeMap, viewRoot, searchQuery, searchType,
                 searchResults, isLoading, uploadError, reading, parsing,
                 nextBuild>>
  /\ UNCHANGED fitVars

fieldValue(employee, field) ==
  CASE field = "id"        -> employee.id
    [] field = "name"      -> employee.name
    [] field = "managerId" -> employee.managerId

fieldValues(map) ==
  {fieldValue(map.node[k], f) : k \in DOMAIN map.node, f \in SearchFields}
    \ {NULLSTR}

harnessQueries ==
  IF libMap = NULL THEN {} ELSE LibQueries \cup fieldValues(libMap)

\* call == <<field, query>>
callSearch(call) ==
  /\ libMap # NULL
  /\ libField' = call[1]
  /\ libQuery' = call[2]
  /\ libResults' = searchEmployees(libMap, call[2], call[1])
  /\ lastOp' = "searchEmployees"
  /\ UNCHANGED <<libRows, libMap>>
  /\ UNCHANGED <<employeeMap, viewRoot, searchQuery, searchType,
                 searchResults, isLoading, uploadError, reading, parsing,
                 nextBuild>>
  /\ UNCHANGED fitVars

LibNext ==
  \/ callBuild
  \/ \E call \in SearchFields \X harnessQueries : callSearch(call)

LibSpec == LibInit /\ [][LibNext]_vars

\* ------------------------------------------------------------------------
\* OrgChart: the chart as App mounts it, hands it new roots and unmounts it
\* ------------------------------------------------------------------------
FitInit ==
  /\ AppInit
  /\ LibIdle
  /\ Unmounted
  /\ \E size \in Viewports :
       /\ clientWidth = size[1]
       /\ clientHeight = size[2]

appIdle ==
  UNCHANGED <<employeeMap, viewRoot, searchQuery, searchType, searchResults,
              isLoading, uploadError, reading, parsing, nextBuild>>

\* fitToScreen: the transform of the view after the call. The transition to
\* the fit transform is taken as a whole; without a zoom object nothing is
\* called.
fitToScreen(zoom, t, ns) ==
  IF zoom THEN fitTransform(ns, clientWidth, clientHeight) ELSE t

\* first render of OrgChart and its zoom-setup effect: fitToScreen runs
\* before the zoom behaviour is stored in __zoomObj
mountChart(ns) ==
  /\ ~mounted
  /\ mounted' = TRUE
  /\ nodes' = ns
  /\ zoomTransform' = fitToScreen(zoomObj, zoomIdentity, ns)
  /\ zoomObj' = TRUE
  /\ zoomSteps' = 0
  /\ lastOp' = "mountChart"
  /\ UNCHANGED <<clientWidth, clientHeight>>
  /\ appIdle
  /\ UNCHANGED libVars

\* a new rootNode: the layout is computed again and the effect runs again
rootChange(ns) ==
  /\ mounted
  /\ nodes' = ns
  /\ zoomTransform' = fitToScreen(zoomObj, zoomTransform, ns)
  /\ zoomObj' = TRUE
  /\ lastOp' = "rootChange"
  /\ UNCHANGED <<mounted, clientWidth, clientHeight, zoomSteps>>
  /\ appIdle
  /\ UNCHANGED libVars

\* the Fit to Screen button
clickFit ==
  /\ mounted
  /\ zoomTransform' = fitToScreen(zoomObj, zoomTransform, nodes)
  /\ lastOp' = "fitToScreen"
  /\ UNCHANGED <<mounted, zoomObj, nodes, clientWidth, clientHeight,
                 zoomSteps>>
  /\ appIdle
  /\ UNCHANGED libVars

\* the Zoom In and Zoom Out buttons
handleZoom(factor) ==
  /\ mounted
  /\ zoomSteps < MaxZoomSteps
  /\ zoomSteps' = zoomSteps + 1
  /\ zoomTransform' =
       IF zoomObj
       THEN scaleBy(zoomTransform, factor, clientWidth, clientHeight)
       ELSE zoomTransform
  /\ lastOp' = "handleZoom"
  /\ UNCHANGED <<mounted, zoomObj, nodes, clientWidth, clientHeight>>
  /\ appIdle
  /\ UNCHANGED libVars

\* the window gets another size; the chart has no handler for it
resize(size) ==
  /\ size # <<clientWidth, clientHeight>>
  /\ clientWidth' = size[1]
  /\ clientHeight' = size[2]
  /\ lastOp' = "resize"
  /\ UNCHANGED <<mounted, zoomObj, nodes, zoomTransform, zoomSteps>>
  /\ appIdle
  /\ UNCHANGED libVars

\* App stops rendering OrgChart (viewRoot or employeeMap is null); the svg
\* element and the state of the component are dropped
unmountChart ==
  /\ mounted
  /\ mounted' = FALSE
  /\ zoomObj' = FALSE
  /\ nodes' = {}
  /\ zoomTransform' = zoomIdentity
  /\ zoomSteps' = 0
  /\ lastOp' = "unmountChart"
  /\ UNCHANGED <<clientWidth, clientHeight>>
  /\ appIdle
  /\ UNCHANGED libVars

FitNext ==
  \/ \E ns \in Layouts : mountChart(ns)
  \/ \E ns \in Layouts : rootChange(ns)
  \/ clickFit
  \/ \E factor \in ZoomFactors : handleZoom(factor)
  \/ \E size \in Viewports : resize(size)
  \/ unmountChart

FitSpec == FitInit /\ [][FitNext]_vars

\* ========================================================================
\* Properties
\* ========================================================================
keysOf(m) == DOMAIN m.node
occurrences(seq, x) == Cardinality({i \in 1..Len(seq) : seq[i] = x})
positionIn(seq, x) == CHOOSE i \in 1..Len(seq) : seq[i] = x
recordsOf(rows, k) == {i \in 1..Len(rows) : rowId(rows[i]) = k}
firstRecord(rows, k) ==
  CHOOSE i \in recordsOf(rows, k) : \A j \in recordsOf(rows, k) : i <= j
lastRecord(rows, k) ==
  CHOOSE i \in recordsOf(rows, k) : \A j \in recordsOf(rows, k) : j <= i
built == libMap # NULL
childrenOf(m, k) == m.node[k].children

\* C1: after buildEmployeeMap, a node whose managerId is a key of the index
\* occurs exactly once in that manager's children and in no other node's
\* children, and every element of a node's children has that node's id as
\* its managerId.
C1_ExclusiveOwnership ==
  built =>
    /\ \A n \in keysOf(libMap) :
         LET mgr == libMap.node[n].managerId IN
         mgr \in keysOf(libMap) =>
           /\ occurrences(childrenOf(libMap, mgr), n) = 1
           /\ \A o \in keysOf(libMap) \ {mgr} :
                occurrences(childrenOf(libMap, o), n) = 0
    /\ \A o \in keysOf(libMap) :
         \A i \in 1..Len(childrenOf(libMap, o)) :
           /\ childrenOf(libMap, o)[i] \in keysOf(libMap)
           /\ libMap.node[childrenOf(libMap, o)[i]].managerId = o

\* a manager with two children, built from input with a repeated id
C1_Witness ==
  /\ built
  /\ \E o \in keysOf(libMap) : Len(childrenOf(libMap, o)) = 2
  /\ \E k \in keysOf(libMap) : Cardinality(recordsOf(libRows, k)) > 1

\* C2 as stated: siblings are ordered by the input position of the last
\* (winning) record of each child's id.
C2_OrderByWinningRecord ==
  built =>
    \A o \in keysOf(libMap) :
      \A i, j \in 1..Len(childrenOf(libMap, o)) :
        i < j => lastRecord(libRows, childrenOf(libMap, o)[i])
                   < lastRecord(libRows, childrenOf(libMap, o)[j])

\* C2 amended: siblings are ordered by the input position of the first
\* record that carries each child's id, also when a later record with the
\* same id overwrites the node.
C2_OrderByFirstRecord ==
  built =>
    \A o \in keysOf(libMap) :
      \A i, j \in 1..Len(childrenOf(libMap, o)) :
        i < j => firstRecord(libRows, childrenOf(libMap, o)[i])
                   < firstRecord(libRows, childrenOf(libMap, o)[j])

\* two siblings, the earlier of which was overwritten by a record that
\* comes after the record of the later one
C2_Witness ==
  /\ built
  /\ \E o \in keysOf(libMap) :
       /\ Len(childrenOf(libMap, o)) = 2
       /\ lastRecord(libRows, childrenOf(libMap, o)[1])
            > lastRecord(libRows, childrenOf(libMap, o)[2])

\* C3: for a non-empty record sequence the index has exactly one node per
\* distinct non-empty identifier of the input, no id twice, and each node
\* carries the name and the managerId of the last record with its id.
C3_LastWriteWins ==
  (built /\ libRows # << >>) =>
    /\ keysOf(libMap) =
         {rowId(libRows[i]) : i \in 1..Len(libRows)} \ {EMPTY}
    /\ {libMap.order[i] : i \in 1..Len(libMap.order)} = keysOf(libMap)
    /\ \A k \in keysOf(libMap) : occurrences(libMap.order, k) = 1
    /\ \A k \in keysOf(libMap) :
         LET last == libRows[lastRecord(libRows, k)] IN
         /\ libMap.node[k].id = k
         /\ libMap.node[k].name =
              (IF rowName(last) = EMPTY THEN Unknown ELSE rowName(last))
         /\ libMap.node[k].managerId =
              (IF rowManagerId(last) = EMPTY THEN NULLSTR
               ELSE rowManagerId(last))

\* an id carried by two records that differ in name and manager
C3_Witness ==
  /\ built
  /\ \E k \in keysOf(libMap) :
       LET first == libRows[firstRecord(libRows, k)]
           last  == libRows[lastRecord(libRows, k)]
       IN  /\ rowName(first) # rowName(last)
           /\ rowManagerId(first) # rowManagerId(last)
           /\ libMap.node[k].name = rowName(last)

searched == built /\ lastOp = "searchEmployees"

\* the keys whose chosen field contains q, compared without regard to case
containing(m, field, q) ==
  {k \in keysOf(m) :
     /\ fieldValue(m.node[k], field) # NULLSTR
     /\ includes(toLowerCase(fieldValue(m.node[k], field)), toLowerCase(q))}

\* C9: searchEmployees returns exactly the nodes whose chosen field contains
\* the trimmed query as a case-insensitive substring, in the insertion order
\* of the index; nothing for an empty or whitespace-only query; and a
\* managerId search returns no node whose managerId is null.
C9_SearchResult ==
  searched =>
    IF trim(libQuery) = EMPTY
    THEN libResults = << >>
    ELSE /\ \A i \in 1..Len(libResults) :
              libResults[i] = employeeAt(libMap, libResults[i].id)
         /\ {libResults[i].id : i \in 1..Len(libResults)}
              = containing(libMap, libField, trim(libQuery))
         /\ \A i, j \in 1..Len(libResults) :
              i < j => positionIn(libMap.order, libResults[i].id)
                         < positionIn(libMap.order, libResults[j].id)
         /\ libField = "managerId" =>
              \A i \in 1..Len(libResults) :
                fieldsOf(libResults[i]).managerId # NULLSTR

\* a padded upper-case query that finds two nodes, and leaves one out
C9_Witness ==
  /\ searched
  /\ libQuery = <<" ", "A", " ">>
  /\ Len(libResults) = 2
  /\ Len(libMap.order) = 3

\* C10 as stated: a query equal to the full non-null value of the searched
\* field of a node finds that node.
C10_FullValueFound ==
  searched =>
    \A k \in keysOf(libMap) :
      (/\ fieldValue(libMap.node[k], libField) # NULLSTR
       /\ libQuery = fieldValue(libMap.node[k], libField))
      => \E i \in 1..Len(libResults) : libResults[i] = employeeAt(libMap, k)

\* C10 amended: a query equal to the full non-null value of the searched
\* field of a node finds that node, provided the value is not made of
\* whitespace only.
C10_FullValueFoundUnlessBlank ==
  searched =>
    \A k \in keysOf(libMap) :
      (/\ fieldValue(libMap.node[k], libField) # NULLSTR
       /\ libQuery = fieldValue(libMap.node[k], libField)
       /\ trim(libQuery) # EMPTY)
      => \E i \in 1..Len(libResults) : libResults[i] = employeeAt(libMap, k)

\* a search for a full mixed-case name, found
C10_Witness ==
  /\ searched
  /\ libField = "name"
  /\ libQuery = <<"A", "l">>
  /\ \E i \in 1..Len(libResults) :
       fieldsOf(libResults[i]).name = <<"A", "l">>

\* ------------------------------------------------------------------------
\* View controller
\* ------------------------------------------------------------------------
idsOf(rows) == {rowId(rows[i]) : i \in 1..Len(rows)} \ {EMPTY}

\* the step resumes the suspended upload
resumes == parsing # << >> /\ lastOp' = "handleUploadResume"

\* the step resumes the suspended upload and builds an index from it
buildsIndex == resumes /\ nextBuild' # nextBuild

isRootCandidate(m, k) ==
  \/ m.node[k].managerId = NULLSTR
  \/ m.node[k].managerId \notin keysOf(m)

\* C4: after a build, a node whose record names a manager that is no key of
\* the index is in the index with that managerId kept, is in no node's
\* children, and counts as a root candidate like a node without managerId:
\* the first root candidate in index order is the initial root.
C4_UnresolvedManagerIsRoot ==
  [][buildsIndex =>
         LET rows == parsing[1]
             m == employeeMap'
         IN  /\ \A k \in idsOf(rows) :
                  LET mgr == rowManagerId(rows[lastRecord(rows, k)]) IN
                  (mgr # EMPTY /\ mgr \notin idsOf(rows)) =>
                    /\ k \in keysOf(m)
                    /\ m.node[k].managerId = mgr
                    /\ \A o \in keysOf(m) : occurrences(childrenOf(m, o), k) = 0
                    /\ isRootCandidate(m, k)
             /\ \A p \in 1..Len(m.order) :
                  (/\ isRootCandidate(m, m.order[p])
                   /\ \A q \in 1..(p - 1) : ~isRootCandidate(m, m.order[q]))
                  => viewRoot' = employeeAt(m, m.order[p])
    ]_vars

\* the node picked as initial root is second in the index and names a
\* manager that the index does not hold
C4_Witness ==
  /\ lastOp = "handleUploadResume"
  /\ employeeMap # NULL
  /\ isEmployee(viewRoot)
  /\ viewRoot.home = employeeMap
  /\ Len(employeeMap.order) = 2
  /\ viewRoot.id = employeeMap.order[2]
  /\ fieldsOf(viewRoot).managerId = <<"c">>

\* C5: an upload whose record set is empty, or none of whose records has a
\* usable identifier, shows the error and installs nothing: employeeMap and
\* viewRoot stay as they were.
C5_NoIndexWithoutIdentifier ==
  [][(resumes /\ idsOf(parsing[1]) = {}) =>
         /\ uploadError' = ErrorMessage
         /\ employeeMap' = employeeMap
         /\ viewRoot' = viewRoot
    ]_vars

\* C6: an index is present iff a root is selected: the controller is Empty
\* (no index, no root) or Loaded (index, and a node as root).
C6_EmptyOrLoaded ==
  \/ employeeMap = NULL /\ viewRoot = NULL
  \/ employeeMap # NULL /\ isEmployee(viewRoot)

isEntryOfIndex(e) ==
  /\ employeeMap # NULL
  /\ has(employeeMap, e.id)
  /\ e = employeeAt(employeeMap, e.id)

\* C7: the selected root and every search result on display is an entry of
\* the current index, the same object.
C7_RefsIntoCurrentIndex ==
  /\ isEmployee(viewRoot) => isEntryOfIndex(viewRoot)
  /\ \A i \in 1..Len(searchResults) : isEntryOfIndex(searchResults[i])

\* C8: goUp keeps the root when its managerId is null or no key of the
\* index, and otherwise makes the index entry of that managerId the root;
\* it changes neither the index nor the search query nor the results.
C8_GoUp ==
  [][lastOp' = "goUp" =>
       LET mgr == IF isEmployee(viewRoot)
                  THEN fieldsOf(viewRoot).managerId ELSE NULLSTR
       IN  /\ IF mgr = NULLSTR \/ mgr \notin keysOf(employeeMap)
              THEN viewRoot' = viewRoot
              ELSE viewRoot' = employeeAt(employeeMap, mgr)
           /\ employeeMap' = employeeMap
           /\ searchQuery' = searchQuery
           /\ searchResults' = searchResults
    ]_vars

\* goUp has run while search results were on display and a query was typed;
\* the root has a child
C8_Witness ==
  /\ lastOp = "goUp"
  /\ isEmployee(viewRoot)
  /\ isEntryOfIndex(viewRoot)
  /\ Len(fieldsOf(viewRoot).children) > 0
  /\ Len(searchResults) = 2
  /\ searchQuery # EMPTY

\* C11: resetData returns the controller to its pre-upload state: after it
\* every state variable of App has the value it had before any upload.
C11_ResetRestoresInitial ==
  lastOp = "resetData" =>
    /\ employeeMap = NULL
    /\ viewRoot = NULL
    /\ searchQuery = EMPTY
    /\ searchResults = << >>
    /\ searchType = "name"
    /\ isLoading = FALSE
    /\ uploadError = UNDEFINED

\* the one node the submitted search finds, if it finds exactly one
soleHit ==
  IF employeeMap = NULL \/ searchQuery = EMPTY \/ trim(searchQuery) = EMPTY
  THEN {}
  ELSE LET hits == containing(employeeMap, searchType, trim(searchQuery))
       IN  IF Cardinality(hits) = 1 THEN hits ELSE {}

\* the nodes selectEmployee can be handed: a search result on display or a
\* card of the chart
selectable ==
  {searchResults[i] : i \in 1..Len(searchResults)}
    \cup (IF isEmployee(viewRoot)
          THEN {employeeAt(viewRoot.home, k) : k \in descendants(viewRoot)}
          ELSE {})

\* C12: selectEmployee makes the given node the root and leaves the search
\* query empty and the search results empty, without changing the index;
\* the same holds when a search with exactly one result triggers it.
C12_SelectCommitsSearch ==
  [][/\ lastOp' = "selectEmployee" =>
          /\ viewRoot' \in selectable
          /\ searchQuery' = EMPTY
          /\ searchResults' = << >>
          /\ employeeMap' = employeeMap
     /\ (lastOp' = "handleSearch" /\ soleHit # {}) =>
          /\ \E k \in soleHit : viewRoot' = employeeAt(employeeMap, k)
          /\ searchQuery' = EMPTY
          /\ searchResults' = << >>
          /\ employeeMap' = employeeMap
    ]_vars

\* a submitted id search has made the second node of the index the root
\* and left the search state empty
C12_Witness ==
  /\ lastOp = "handleSearch"
  /\ employeeMap # NULL
  /\ isEmployee(viewRoot)
  /\ isEntryOfIndex(viewRoot)
  /\ searchType = "id"
  /\ Len(employeeMap.order) = 2
  /\ viewRoot.id = employeeMap.order[2]
  /\ viewRoot # defaultRoot(employeeMap)
  /\ searchQuery = EMPTY
  /\ searchResults = << >>

\* the step op has left the fit of the cards ns in the viewport w x h as
\* the transform t of the view
showsFit(op, t, ns, w, h) ==
  /\ ns # {}
  /\ op \in {"mountChart", "rootChange", "fitToScreen"}
  /\ t = fitTransform(ns, w, h)

fitApplied ==
  /\ mounted
  /\ showsFit(lastOp, zoomTransform, nodes, clientWidth, clientHeight)

\* where the transform t puts the centre of the bounding box of ns
screenCenterX(t, ns) == add(mul(centerX(ns), t.k), t.x)
screenCenterY(t, ns) == add(mul(centerY(ns), t.k), t.y)
\* its vertical distance from the centre of a viewport of height h
verticalBias(t, ns, h) == sub(screenCenterY(t, ns), div(num(h), num(2)))

\* C13: the fit transform puts the centre of the bounding box of the cards
\* at the horizontal centre of the viewport, and vertically at the centre of
\* the viewport plus a fixed bias: the bias is the same for every fit,
\* whatever the size of the box and the scale.
C13_CenterWithFixedBias ==
  [][\A op \in {lastOp'}, t \in {zoomTransform'}, ns \in {nodes'},
        w \in {clientWidth'}, h \in {clientHeight'} :
       showsFit(op, t, ns, w, h) =>
         /\ screenCenterX(t, ns) = div(num(w), num(2))
         /\ fitApplied =>
              verticalBias(t, ns, h) =
                verticalBias(zoomTransform, nodes, clientHeight)
    ]_vars

\* C14: for every non-empty set of positions and every viewport, the scale
\* of the fit is finite and lies in [0.2, 1], and no division by zero
\* happens: the box has a positive width and height.
C14_ScaleFiniteAndClamped ==
  (mounted /\ nodes # {}) =>
    LET k == clampedScale(nodes, clientWidth, clientHeight)
    IN  /\ finite(width(nodes)) /\ ~leq(width(nodes), num(0))
        /\ finite(height(nodes)) /\ ~leq(height(nodes), num(0))
        /\ finite(scale(nodes, clientWidth, clientHeight))
        /\ finite(k)
        /\ leq(fitScaleMin, k)
        /\ leq(k, fitScaleMax)
        /\ fitApplied => zoomTransform.k = k

\* the fit of a single card in a viewport without size has been applied: the
\* scale wanted is negative and the lower limit applies
C14_Witness ==
  /\ fitApplied
  /\ Cardinality(nodes) = 1
  /\ clientWidth = 0
  /\ clientHeight = 0
  /\ leq(scale(nodes, clientWidth, clientHeight), num(0))
  /\ zoomTransform.k = fitScaleMin

\* C15: whenever the zoom-setup effect has run, on the first mount and on a
\* later root change, the view transform is the fit transform of the current
\* cards and viewport.
C15_EffectAppliesFit ==
  lastOp \in {"mountChart", "rootChange"} =>
    zoomTransform = fitTransform(nodes, clientWidth, clientHeight)

====
